---- MODULE Spec2Model ----
(***************************************************************************)
(* Model of adapter.py: the OpenAI-compatible /v1/chat/completions         *)
(* endpoint in front of the non-streaming Lili backend.                    *)
(*                                                                         *)
(* A text (Python str) is a sequence of Unicode code points.  A JSON value  *)
(* is a tagged record: [t |-> "null"], [t |-> "bool", v |-> b],            *)
(* [t |-> "num", v |-> n], [t |-> "str", v |-> text],                      *)
(* [t |-> "list", n |-> length], or an object, given by the two keys the   *)
(* handler reads and the number of its other keys,                         *)
(* [t |-> "object", message |-> f, error |-> f, extra |-> k], where a      *)
(* field f is a JSON value or [t |-> "absent"].  The body of an upstream   *)
(* response that is not JSON at all is [t |-> "invalid"].                  *)
(*                                                                         *)
(* One request is handled in steps: chat_completions runs the handler up   *)
(* to `await client.post`; post_returns is the return of that call (or the *)
(* httpx.RequestError it raises), inside the `async with` block, whose     *)
(* exit awaits the closing of the client and so yields to the event loop;  *)
(* handle_response resumes the handler after that block up to the returned *)
(* response; sse_chunk / sse_final / sse_done are the successive yields of *)
(* the generator sse_gen.                                                  *)
(***************************************************************************)
EXTENDS Integers, Sequences, FiniteSets, TLC

VARIABLES
    STREAM_CHUNK_SIZE,  \* process configuration, read once at start
    uuid_count,         \* number of uuid.uuid4() identifiers drawn for sender_id
    pc,                 \* per request: position of the handler
    body,               \* per request: the validated ChatCompletionsRequest
    payload,            \* per request: the payloads posted to Lili, in order
    resp,               \* per request: what the upstream call produced
    assistant_text,     \* per request: the parsed answer text
    parts,              \* per request: the list sse_gen iterates over
    next_part,          \* per request: index of the next part sse_gen yields
    first,              \* per request: sse_gen's flag `first`
    events,             \* per request: SSE events yielded so far
    envelopes,          \* per request: JSON bodies returned (non-streaming)
    status_code         \* per request: HTTP status of the response, 0 = none yet

vars == <<STREAM_CHUNK_SIZE, uuid_count, pc, body, payload, resp,
          assistant_text, parts, next_part, first, events, envelopes,
          status_code>>

(***************************************************************************)
(* Bounds                                                                  *)
(***************************************************************************)
NumReq == 2          \* concurrent requests
MaxMsgs == 2         \* messages per request
MaxContentLen == 2   \* characters of a message content or of a session hint
MaxFieldLen == 2     \* characters of an upstream message / error field
MaxAnswerLen == 4    \* characters of an upstream answer that is streamed
MaxChunk == 3        \* largest small fragment size tried

DefaultChunkSize == 40

Requests == 1 .. NumReq

(***************************************************************************)
(* Texts                                                                   *)
(***************************************************************************)
\* the code points c with chr(c).isspace(), which str.strip() removes
Whitespace ==
    (9 .. 13) \cup (28 .. 32) \cup {133, 160, 5760} \cup (8192 .. 8202)
        \cup {8232, 8233, 8239, 8287, 12288}

\* "a", " "
ReqChars == {97, 32}
\* "a", " ", "\r"
HintChars == {97, 32, 13}
\* "a", "b", " ", no-break space
AnsChars == {97, 98, 32, 160}

RECURSIVE SeqsUpTo(_, _)
\* the texts over the characters A of length at most n
SeqsUpTo(A, n) ==
    IF n = 0 THEN {<<>>}
    ELSE LET shorter == SeqsUpTo(A, n - 1)
         IN  shorter \cup {Append(s, c) : s \in {t \in shorter : Len(t) = n - 1}, c \in A}

RECURSIVE lstrip(_)
lstrip(s) ==
    IF s # <<>> /\ Head(s) \in Whitespace THEN lstrip(Tail(s)) ELSE s

RECURSIVE rstrip(_)
rstrip(s) ==
    IF s # <<>> /\ s[Len(s)] \in Whitespace
    THEN rstrip(SubSeq(s, 1, Len(s) - 1))
    ELSE s

\* str.strip(): leading and trailing whitespace removed
strip(s) == rstrip(lstrip(s))

\* Python slice text[i : j] with 0 <= i, on 0-based indices
Slice(text, i, j) ==
    SubSeq(text, i + 1, IF j < Len(text) THEN j ELSE Len(text))

RECURSIVE Concat(_)
Concat(ss) == IF ss = <<>> THEN <<>> ELSE Head(ss) \o Concat(Tail(ss))

(***************************************************************************)
(* JSON values and Python truthiness                                       *)
(***************************************************************************)
JNull == [t |-> "null"]
JBool(b) == [t |-> "bool", v |-> b]
JNum(n) == [t |-> "num", v |-> n]
JStr(s) == [t |-> "str", v |-> s]
JList(n) == [t |-> "list", n |-> n]
Absent == [t |-> "absent"]
NotJson == [t |-> "invalid"]
JDict(m, e, k) == [t |-> "object", message |-> m, error |-> e, extra |-> k]
JObject(m, e) == JDict(m, e, 0)

\* bool(v) as `or` applies it
Truthy(v) ==
    CASE v.t = "null" -> FALSE
      [] v.t = "bool" -> v.v
      [] v.t = "num" -> v.v # 0
      [] v.t = "str" -> v.v # <<>>
      [] v.t = "list" -> v.n # 0
      [] v.t = "object" ->
            v.message.t # "absent" \/ v.error.t # "absent" \/ v.extra # 0
      [] OTHER -> FALSE

\* a or b
PyOr(a, b) == IF Truthy(a) THEN a ELSE b

\* dict.get(key): None when the key is missing
DictGet(f) == IF f.t = "absent" THEN JNull ELSE f

(***************************************************************************)
(* Helpers of adapter.py                                                   *)
(***************************************************************************)
ChatMessage(role, content) == [role |-> role, content |-> content]

Roles == {"system", "user", "assistant"}

\* faulty variant: scans from the beginning and returns the first user message
RECURSIVE first_user_message(_)
first_user_message(messages) ==
    IF messages = <<>> THEN <<>>
    ELSE LET m == Head(messages)
         IN  IF m.role = "user" /\ m.content # <<>>
             THEN m.content
             ELSE first_user_message(Tail(messages))

RECURSIVE last_user_message(_)
last_user_message(messages) ==
    IF messages = <<>> THEN <<>>
    ELSE LET m == messages[Len(messages)]
         IN  IF m.role = "user" /\ m.content # <<>>
             THEN m.content
             ELSE last_user_message(SubSeq(messages, 1, Len(messages) - 1))

RECURSIVE ChunksFrom(_, _, _, _)
\* [text[i : i + step] for i in range(start, stop, step)]
ChunksFrom(text, start, stop, step) ==
    IF start >= stop THEN <<>>
    ELSE <<Slice(text, start, start + step)>>
         \o ChunksFrom(text, start + step, stop, step)

\* faulty variant: the range stops before a trailing partial fragment
chunk_text_whole_only(text, chunk_size) ==
    IF chunk_size <= 0 THEN <<text>>
    ELSE ChunksFrom(text, 0, Len(text) - chunk_size + 1, chunk_size)

\* faulty variant: the range runs one position too far
chunk_text_off_by_one(text, chunk_size) ==
    IF chunk_size <= 0 THEN <<text>>
    ELSE ChunksFrom(text, 0, Len(text) + 1, chunk_size)

chunk_text(text, chunk_size) ==
    IF chunk_size <= 0 THEN <<text>>
    ELSE ChunksFrom(text, 0, Len(text), chunk_size)

\* str(uuid.uuid4()): the n-th identifier drawn (n < 10), written "u" and
\* the digit n; non-empty, no whitespace
uuid4(n) == <<117, 48 + n>>

\* (body.user or str(uuid.uuid4())).strip()
sender_id_of(user, fresh) == strip(PyOr(user, JStr(fresh)).v)

\* data.get("message") or data.get("error") or ""
answer_value(data) ==
    PyOr(PyOr(DictGet(data.message), DictGet(data.error)), JStr(<<>>))

\* The handler from the upstream outcome to the response it decides on:
\* the status and, for 200, the answer text.
Outcome502 == [status |-> 502, text |-> <<>>]
Outcome500 == [status |-> 500, text |-> <<>>]

\* faulty variant: the answer text is used as received
after_upstream_untrimmed(o) ==
    IF o.kind = "RequestError" THEN Outcome502
    ELSE IF o.status_code >= 400 THEN Outcome502
    ELSE IF o.json.t = "invalid" THEN Outcome502
    ELSE IF o.json.t # "object" THEN Outcome500
    ELSE IF answer_value(o.json).t # "str" THEN Outcome500
    ELSE [status |-> 200, text |-> answer_value(o.json).v]

after_upstream(o) ==
    IF o.kind = "RequestError" THEN Outcome502
    ELSE IF o.status_code >= 400 THEN Outcome502
    ELSE IF o.json.t = "invalid" THEN Outcome502
    \* data.get on a list, string, number or None raises AttributeError,
    \* as does .strip() on a number: an unhandled exception, answered 500
    ELSE IF o.json.t # "object" THEN Outcome500
    ELSE IF answer_value(o.json).t # "str" THEN Outcome500
    ELSE [status |-> 200, text |-> strip(answer_value(o.json).v)]

(***************************************************************************)
(* Initial state                                                           *)
(***************************************************************************)
\* "213"
LILI_WORKFLOW_ID == <<50, 49, 51>>

\* placeholders for what a request does not have yet
NoBody == [messages |-> <<>>, stream |-> FALSE, user |-> JNull]
NoResp == [kind |-> "none"]

EmptyDict == [k \in {} |-> k]

Chunk(delta, finish_reason) ==
    [object |-> "chat.completion.chunk", delta |-> delta,
     finish_reason |-> finish_reason]

DONE == [object |-> "[DONE]"]

InitRequests ==
    /\ uuid_count = 0
    /\ pc = [r \in Requests |-> "idle"]
    /\ body = [r \in Requests |-> NoBody]
    /\ payload = [r \in Requests |-> <<>>]
    /\ resp = [r \in Requests |-> NoResp]
    /\ assistant_text = [r \in Requests |-> <<>>]
    /\ parts = [r \in Requests |-> <<>>]
    /\ next_part = [r \in Requests |-> 0]
    /\ first = [r \in Requests |-> FALSE]
    /\ events = [r \in Requests |-> <<>>]
    /\ envelopes = [r \in Requests |-> <<>>]
    /\ status_code = [r \in Requests |-> 0]

\* STREAM_CHUNK_SIZE = int(os.getenv("STREAM_CHUNK_SIZE", "40"))
ChunkSizes == (-1 .. MaxChunk) \cup {DefaultChunkSize}

Init ==
    /\ STREAM_CHUNK_SIZE \in {1, DefaultChunkSize}
    /\ InitRequests

InitDefault ==
    /\ STREAM_CHUNK_SIZE = DefaultChunkSize
    /\ InitRequests

InitStream ==
    /\ STREAM_CHUNK_SIZE \in ChunkSizes
    /\ InitRequests

(***************************************************************************)
(* The handler chat_completions, up to `await client.post`                 *)
(***************************************************************************)
\* raise HTTPException(status_code=400) before anything is posted
reject_400(r) ==
    /\ status_code' = [status_code EXCEPT ![r] = 400]
    /\ pc' = [pc EXCEPT ![r] = "done"]
    /\ UNCHANGED <<uuid_count, payload, events>>

\* faulty variant: the stream is opened with the role chunk before Lili is called
post_upstream_eager(r, b, user_text) ==
    LET drawn == ~Truthy(b.user)
        sender_id == sender_id_of(b.user, uuid4(uuid_count + 1))
    IN  /\ uuid_count' = IF drawn THEN uuid_count + 1 ELSE uuid_count
        /\ payload' = [payload EXCEPT ![r] =
                          Append(@, [workflow_id |-> LILI_WORKFLOW_ID,
                                     sender_id |-> sender_id,
                                     user_message |-> user_text])]
        /\ events' = [events EXCEPT ![r] =
                          IF b.stream
                          THEN Append(@, Chunk([content |-> <<>>, role |-> "assistant"], "null"))
                          ELSE @]
        /\ pc' = [pc EXCEPT ![r] = "awaiting"]
        /\ UNCHANGED status_code

\* sender_id, payload and client.post(LILI_ENDPOINT, json=payload)
post_upstream(r, b, user_text) ==
    LET drawn == ~Truthy(b.user)
        sender_id == sender_id_of(b.user, uuid4(uuid_count + 1))
    IN  /\ uuid_count' = IF drawn THEN uuid_count + 1 ELSE uuid_count
        /\ payload' = [payload EXCEPT ![r] =
                          Append(@, [workflow_id |-> LILI_WORKFLOW_ID,
                                     sender_id |-> sender_id,
                                     user_message |-> user_text])]
        /\ pc' = [pc EXCEPT ![r] = "awaiting"]
        /\ UNCHANGED <<status_code, events>>

chat_completions(r, b) ==
    /\ pc[r] = "idle"
    /\ body' = [body EXCEPT ![r] = b]
    /\ LET user_text == strip(last_user_message(b.messages))
       IN  IF user_text = <<>>
           THEN reject_400(r)
           ELSE post_upstream(r, b, user_text)
    /\ UNCHANGED <<STREAM_CHUNK_SIZE, resp, assistant_text, parts, next_part,
                   first, envelopes>>

(***************************************************************************)
(* The handler from the return of client.post to the returned response     *)
(***************************************************************************)
\* faulty variant: a failed call is issued again
upstream_failed_retry(r, code) ==
    /\ payload' = [payload EXCEPT ![r] = Append(@, @[Len(@)])]
    /\ pc' = [pc EXCEPT ![r] = "awaiting"]
    /\ UNCHANGED <<status_code, assistant_text, envelopes>>

\* raise HTTPException(status_code=502), or the unhandled exception
upstream_failed(r, code) ==
    /\ status_code' = [status_code EXCEPT ![r] = code]
    /\ pc' = [pc EXCEPT ![r] = "done"]
    /\ UNCHANGED <<payload, assistant_text, envelopes>>

JSONResponse(text) ==
    [object |-> "chat.completion",
     choices |-> <<[index |-> 0,
                    message |-> [role |-> "assistant", content |-> text],
                    finish_reason |-> "stop"]>>]

upstream_succeeded(r, text) ==
    /\ assistant_text' = [assistant_text EXCEPT ![r] = text]
    /\ status_code' = [status_code EXCEPT ![r] = 200]
    /\ IF ~body[r].stream
       THEN /\ envelopes' = [envelopes EXCEPT ![r] = Append(@, JSONResponse(text))]
            /\ pc' = [pc EXCEPT ![r] = "done"]
       ELSE /\ envelopes' = envelopes
            /\ pc' = [pc EXCEPT ![r] = "streaming"]
    /\ UNCHANGED payload

\* resp = await client.post(...) returns, or raises httpx.RequestError; the
\* exit of `async with httpx.AsyncClient(...)` is then awaited
post_returns(r, o) ==
    /\ pc[r] = "awaiting"
    /\ resp' = [resp EXCEPT ![r] = o]
    /\ pc' = [pc EXCEPT ![r] = "closing"]
    /\ UNCHANGED <<STREAM_CHUNK_SIZE, uuid_count, body, payload,
                   assistant_text, parts, next_part, first, events,
                   envelopes, status_code>>

\* the client is closed: the handler runs from the end of the `async with`
\* block to the response it returns or the exception it raises
handle_response(r) ==
    /\ pc[r] = "closing"
    /\ LET res == after_upstream(resp[r])
       IN  IF res.status # 200
           THEN upstream_failed(r, res.status)
           ELSE upstream_succeeded(r, res.text)
    /\ UNCHANGED <<STREAM_CHUNK_SIZE, uuid_count, body, resp, parts,
                   next_part, first, events>>

(***************************************************************************)
(* The generator sse_gen                                                   *)
(***************************************************************************)
\* first = True; the list chunk_text(assistant_text, STREAM_CHUNK_SIZE)
sse_start(r) ==
    /\ pc[r] = "streaming"
    /\ first' = [first EXCEPT ![r] = TRUE]
    /\ parts' = [parts EXCEPT ![r] = chunk_text(assistant_text[r], STREAM_CHUNK_SIZE)]
    /\ next_part' = [next_part EXCEPT ![r] = 1]
    /\ pc' = [pc EXCEPT ![r] = "sse"]
    /\ UNCHANGED <<STREAM_CHUNK_SIZE, uuid_count, body, payload, resp,
                   assistant_text, events, envelopes, status_code>>

delta_obj(part, is_first) ==
    IF is_first THEN [content |-> part, role |-> "assistant"]
    ELSE [content |-> part]

\* one iteration of the for loop: yield the chunk of the next part
sse_chunk(r) ==
    /\ pc[r] = "sse"
    /\ next_part[r] <= Len(parts[r])
    /\ events' = [events EXCEPT ![r] =
                     Append(@, Chunk(delta_obj(parts[r][next_part[r]], first[r]), "null"))]
    /\ first' = [first EXCEPT ![r] = FALSE]
    /\ next_part' = [next_part EXCEPT ![r] = @ + 1]
    /\ UNCHANGED <<STREAM_CHUNK_SIZE, uuid_count, pc, body, payload, resp,
                   assistant_text, parts, envelopes, status_code>>

\* faulty variant: the stop chunk carries an empty content
final_event_empty_content == Chunk([content |-> <<>>], "stop")

final_event == Chunk(EmptyDict, "stop")

\* the loop is exhausted: yield the final stop chunk
sse_final(r) ==
    /\ pc[r] = "sse"
    /\ next_part[r] > Len(parts[r])
    /\ events' = [events EXCEPT ![r] = Append(@, final_event)]
    /\ pc' = [pc EXCEPT ![r] = "final"]
    /\ UNCHANGED <<STREAM_CHUNK_SIZE, uuid_count, body, payload, resp,
                   assistant_text, parts, next_part, first, envelopes,
                   status_code>>

\* yield "data: [DONE]\n\n" and return
sse_done(r) ==
    /\ pc[r] = "final"
    /\ events' = [events EXCEPT ![r] = Append(@, DONE)]
    /\ pc' = [pc EXCEPT ![r] = "done"]
    /\ UNCHANGED <<STREAM_CHUNK_SIZE, uuid_count, body, payload, resp,
                   assistant_text, parts, next_part, first, envelopes,
                   status_code>>

(***************************************************************************)
(* Inputs                                                                  *)
(***************************************************************************)
Body(messages, stream, user) ==
    [messages |-> messages, stream |-> stream, user |-> user]

RequestError == [kind |-> "RequestError"]
Response(code, json) == [kind |-> "response", status_code |-> code, json |-> json]

UserSaysA == <<ChatMessage("user", <<97>>)>>

\* concurrent requests: a few representative requests and upstream outcomes
ConcBodies ==
    {Body(UserSaysA, s, JNull) : s \in BOOLEAN}
        \cup {Body(<<ChatMessage("system", <<97>>)>>, TRUE, JNull)}

ConcOutcomes ==
    {RequestError,
     Response(500, NotJson),
     Response(200, NotJson),
     Response(200, JObject(JStr(<<97, 98>>), Absent))}

\* the Request Translator: every message list without a session hint, and
\* every single message with every session hint
ReqTexts == SeqsUpTo(ReqChars, MaxContentLen)

AllMessages == {ChatMessage(role, c) : role \in Roles, c \in ReqTexts}

MessageLists == UNION {[1 .. n -> AllMessages] : n \in 1 .. MaxMsgs}

HintTexts == SeqsUpTo(HintChars, MaxContentLen)

Hints == {JNull} \cup {JStr(t) : t \in HintTexts}

ListBodies == {Body(m, s, JNull) : m \in MessageLists, s \in BOOLEAN}

HintBodies ==
    {Body(<<ChatMessage(role, c)>>, s, u) :
        role \in Roles, c \in HintTexts, s \in BOOLEAN, u \in Hints}

TransOutcomes == {RequestError, Response(200, JObject(JStr(<<97>>), Absent))}

\* the Upstream Caller: every status and body shape
StatusCodes == {200, 399, 400, 500}

FieldValues ==
    {Absent, JNull, JBool(FALSE), JBool(TRUE), JNum(0), JNum(5),
     JList(0), JList(1), JObject(Absent, Absent), JDict(Absent, Absent, 1)}
        \cup {JStr(t) : t \in SeqsUpTo(AnsChars, MaxFieldLen)}

UpstreamBodies ==
    {NotJson, JNull, JBool(TRUE), JNum(5), JList(0), JStr(<<97>>)}
        \cup {JObject(m, e) : m \in FieldValues, e \in FieldValues}

UpBodies == {Body(UserSaysA, s, JNull) : s \in BOOLEAN}

UpOutcomes ==
    {RequestError} \cup {Response(c, j) : c \in StatusCodes, j \in UpstreamBodies}

\* the Response Emulator: every answer text
StreamBodies == {Body(UserSaysA, s, JNull) : s \in BOOLEAN}

StreamOutcomes ==
    {RequestError, Response(200, JObject(Absent, Absent))}
        \cup {Response(200, JObject(JStr(t), Absent)) :
                t \in SeqsUpTo(AnsChars, MaxAnswerLen)}

(***************************************************************************)
(* Specifications                                                          *)
(***************************************************************************)
\* a request with one of the given bodies reaches the endpoint
request_arrives(r, bodies) ==
    /\ pc[r] = "idle"
    /\ \E b \in bodies : chat_completions(r, b)

\* the pending upstream call of a request ends in one of the given outcomes
upstream_answers(r, outcomes) ==
    /\ pc[r] = "awaiting"
    /\ \E o \in outcomes : post_returns(r, o)

\* concurrent requests
Next ==
    \E r \in Requests :
        \/ request_arrives(r, ConcBodies)
        \/ upstream_answers(r, ConcOutcomes)
        \/ handle_response(r)
        \/ sse_start(r)
        \/ sse_chunk(r)
        \/ sse_final(r)
        \/ sse_done(r)

Spec == Init /\ [][Next]_vars

\* one request, every message list and session hint
NextTranslator ==
    \/ request_arrives(1, ListBodies)
    \/ request_arrives(1, HintBodies)
    \/ upstream_answers(1, TransOutcomes)
    \/ handle_response(1)
    \/ sse_start(1)
    \/ sse_chunk(1)
    \/ sse_final(1)
    \/ sse_done(1)

SpecTranslator == InitDefault /\ [][NextTranslator]_vars

\* one request, every upstream outcome
NextUpstream ==
    \/ request_arrives(1, UpBodies)
    \/ upstream_answers(1, UpOutcomes)
    \/ handle_response(1)
    \/ sse_start(1)
    \/ sse_chunk(1)
    \/ sse_final(1)
    \/ sse_done(1)

SpecUpstream == InitDefault /\ [][NextUpstream]_vars

\* one request, every answer text and fragment size
NextStream ==
    \/ request_arrives(1, StreamBodies)
    \/ upstream_answers(1, StreamOutcomes)
    \/ handle_response(1)
    \/ sse_start(1)
    \/ sse_chunk(1)
    \/ sse_final(1)
    \/ sse_done(1)

SpecStream == InitStream /\ [][NextStream]_vars

\* StreamingResponse iterates sse_gen until it is exhausted
FairSpecStream ==
    /\ SpecStream
    /\ WF_vars(sse_start(1))
    /\ WF_vars(sse_chunk(1))
    /\ WF_vars(sse_final(1))
    /\ WF_vars(sse_done(1))

TypeOK ==
    /\ uuid_count \in 0 .. NumReq
    /\ \A r \in Requests :
        /\ pc[r] \in {"idle", "awaiting", "closing", "streaming", "sse", "final",
                    "done"}
        /\ status_code[r] \in {0, 200, 400, 500, 502}
        /\ Len(envelopes[r]) <= 1

(***************************************************************************)
(* Properties                                                              *)
(***************************************************************************)
IsChunk(e) == e.object = "chat.completion.chunk"

RECURSIVE DeltaContents(_)
\* the delta.content values of the chunks of evs, in emission order
DeltaContents(evs) ==
    IF evs = <<>> THEN <<>>
    ELSE (IF IsChunk(Head(evs)) /\ "content" \in DOMAIN Head(evs).delta
          THEN <<Head(evs).delta.content>> ELSE <<>>)
         \o DeltaContents(Tail(evs))

Max(S) == CHOOSE x \in S : \A y \in S : y <= x

Streamed(r) == body[r].stream /\ status_code[r] = 200

\* C1: the delta.content values of a streaming response, concatenated in
\* emission order, are at every moment a prefix of the answer text the
\* non-streaming mode returns for the same upstream body, and are exactly
\* that text once the stream has ended, for every fragment size.
C1_ConcatIsAnswer ==
    \A r \in Requests :
        Streamed(r) =>
            LET sofar == Concat(DeltaContents(events[r]))
                answer == after_upstream(resp[r]).text
            IN  /\ Len(sofar) <= Len(answer)
                /\ sofar = SubSeq(answer, 1, Len(sofar))
                /\ pc[r] \in {"final", "done"} => sofar = answer

C1_Witness ==
    \E r \in Requests :
        /\ Streamed(r) /\ pc[r] = "done"
        /\ STREAM_CHUNK_SIZE = 2
        /\ assistant_text[r] = <<97, 32, 98>>
        /\ Len(events[r]) = 4

\* C2: the first event of a stream is a chunk whose delta has role
\* "assistant", and no later chunk has a role key.
C2_RoleOnFirstChunkOnly ==
    \A r \in Requests :
        events[r] # <<>> =>
            /\ IsChunk(events[r][1])
            /\ "role" \in DOMAIN events[r][1].delta
            /\ events[r][1].delta.role = "assistant"
            /\ \A i \in 2 .. Len(events[r]) :
                  IsChunk(events[r][i]) => "role" \notin DOMAIN events[r][i].delta

\* the shape of the events of request r: chunks with finish_reason null,
\* then at most one stop chunk with an empty delta, then at most [DONE]
C3_Shape(r) ==
    LET evs == events[r]
        n == Len(evs)
        stops == {i \in 1 .. n : IsChunk(evs[i]) /\ evs[i].finish_reason # "null"}
        dones == {i \in 1 .. n : ~IsChunk(evs[i])}
    IN  /\ Cardinality(stops) <= 1
        /\ Cardinality(dones) <= 1
        /\ \A i \in stops :
              /\ evs[i].finish_reason = "stop"
              /\ DOMAIN evs[i].delta = {}
              /\ \A j \in 1 .. i - 1 : IsChunk(evs[j]) /\ evs[j].finish_reason = "null"
              /\ i >= n - 1
        /\ \A i \in dones : evs[i] = DONE /\ i = n /\ n - 1 \in stops
        /\ pc[r] = "done" /\ Streamed(r) => dones # {}
        /\ pc[r] = "final" => stops # {} /\ dones = {}
        /\ pc[r] \in {"streaming", "sse"} => stops = {} /\ dones = {}

\* the stream of request r has ended with [DONE]
EndedWithDone(r) ==
    IF pc[r] = "done" /\ events[r] # <<>>
    THEN events[r][Len(events[r])] = DONE
    ELSE FALSE

\* C3: a stream consists of chunks with finish_reason null, then exactly one
\* stop chunk with delta {}, then [DONE] as the last event; and every stream
\* that has been started reaches [DONE].
C3_StopThenDone ==
    /\ [](\A r \in Requests : C3_Shape(r))
    /\ \A r \in Requests :
          (pc[r] = "streaming") ~> EndedWithDone(r)

C3_Witness ==
    \E r \in Requests :
        /\ pc[r] = "done" /\ Streamed(r)
        /\ Len(events[r]) = 5
        /\ events[r][5] = DONE
        /\ events[r][4].finish_reason = "stop"

\* indices of the user entries / of the user entries with a content
UserEntries(ms) == {i \in 1 .. Len(ms) : ms[i].role = "user"}
FilledUserEntries(ms) == {i \in UserEntries(ms) : ms[i].content # <<>>}

\* what a request does with the entry set U it selects the last entry of
TranslatesLastOf(r, U) ==
    LET ms == body[r].messages
    IN  IF U = {} \/ strip(ms[Max(U)].content) = <<>>
        THEN status_code[r] = 400 /\ payload[r] = <<>>
        ELSE /\ status_code[r] # 400
             /\ Len(payload[r]) = 1
             /\ payload[r][1].user_message = strip(ms[Max(U)].content)

\* C4 as stated: the last user entry decides; 400 when there is none or its
\* content is empty or whitespace-only, else user_message comes from it.
C4_LastUserEntry ==
    \A r \in Requests :
        pc[r] # "idle" => TranslatesLastOf(r, UserEntries(body[r].messages))

\* C4 amended: the last user entry with a non-empty content decides (user
\* entries with an empty content are skipped); 400 when there is none or its
\* content is whitespace-only, else user_message is that content trimmed.
C4_LastFilledUserEntry ==
    \A r \in Requests :
        pc[r] # "idle" => TranslatesLastOf(r, FilledUserEntries(body[r].messages))

C4_Witness ==
    \E r \in Requests :
        /\ body[r].messages = <<ChatMessage("user", <<97>>),
                                ChatMessage("user", <<>>)>>
        /\ Len(payload[r]) = 1
        /\ payload[r][1].user_message = <<97>>

\* C5: sender_id is the trimmed hint when the hint is present and non-empty
\* after trimming, a freshly generated identifier otherwise, and never empty.
C5_SenderId ==
    \A r \in Requests :
        payload[r] # <<>> =>
            LET user == body[r].user
                sender_id == payload[r][1].sender_id
            IN  /\ IF user.t = "str" /\ strip(user.v) # <<>>
                   THEN sender_id = strip(user.v)
                   ELSE sender_id \in {uuid4(n) : n \in 1 .. uuid_count}
                /\ sender_id # <<>>

\* an upstream failure as C6 lists them
NotText(f) == f.t \notin {"absent", "str"}

UpstreamFailure(o) ==
    \/ o.kind = "RequestError"
    \/ /\ o.kind = "response"
       /\ \/ o.status_code >= 400
          \/ o.json.t # "object"
          \/ NotText(o.json.message)
          \/ o.json.message.t = "absent" /\ NotText(o.json.error)

\* C6: every upstream failure is answered 502.
C6_Failure502 ==
    \A r \in Requests :
        pc[r] = "done" /\ UpstreamFailure(resp[r]) => status_code[r] = 502

\* a successful upstream call whose body carries a text message field (and
\* no error field that is not a text)
CarriesMessage(o) ==
    /\ o.kind = "response"
    /\ o.status_code < 400
    /\ o.json.t = "object"
    /\ o.json.message.t = "str"
    /\ o.json.error.t \in {"absent", "null", "str"}

OneEnvelope(r, content) ==
    /\ status_code[r] = 200
    /\ events[r] = <<>>
    /\ Len(envelopes[r]) = 1
    /\ envelopes[r][1].object = "chat.completion"
    /\ Len(envelopes[r][1].choices) = 1
    /\ envelopes[r][1].choices[1].finish_reason = "stop"
    /\ envelopes[r][1].choices[1].message.role = "assistant"
    /\ envelopes[r][1].choices[1].message.content = content

\* C7 as stated: the non-streaming content is the message field verbatim.
C7_Verbatim ==
    \A r \in Requests :
        pc[r] = "done" /\ ~body[r].stream /\ CarriesMessage(resp[r]) =>
            OneEnvelope(r, resp[r].json.message.v)

\* C7 amended: the non-streaming content is the message field trimmed of
\* surrounding whitespace when that field is a non-empty text; when it is the
\* empty text, the content is the text of the error field trimmed (the empty
\* text when there is none).
C7_Trimmed ==
    \A r \in Requests :
        pc[r] = "done" /\ ~body[r].stream /\ CarriesMessage(resp[r]) =>
            LET message == resp[r].json.message
                error == resp[r].json.error
            IN  /\ message.v # <<>> => OneEnvelope(r, strip(message.v))
                /\ message.v = <<>> /\ error.t = "str" => OneEnvelope(r, strip(error.v))
                /\ message.v = <<>> /\ error.t \in {"absent", "null"} => OneEnvelope(r, <<>>)

C7_Witness ==
    \E r \in Requests :
        /\ pc[r] = "done" /\ ~body[r].stream
        /\ resp[r] = Response(200, JObject(JStr(<<32, 97>>), JStr(<<98>>)))
        /\ OneEnvelope(r, <<97>>)

\* C8: a request rejected with 400 has made no upstream call, any other
\* request that got past validation has made exactly one, whatever the
\* outcome of the call and whatever the other requests do.
C8_OneUpstreamCall ==
    \A r \in Requests :
        /\ Len(payload[r]) <= 1
        /\ status_code[r] = 400 => Len(payload[r]) = 0
        /\ pc[r] # "idle" /\ status_code[r] # 400 => Len(payload[r]) = 1
        /\ pc[r] = "idle" => Len(payload[r]) = 0

C8_Witness ==
    \E r, q \in Requests :
        /\ pc[r] = "done" /\ status_code[r] = 400 /\ payload[r] = <<>>
        /\ pc[q] = "done" /\ status_code[q] = 502 /\ Len(payload[q]) = 1

\* C9: a request that has emitted a chunk has completed its single upstream
\* call successfully, has its answer text and is answered 200; a request
\* answered with an error has emitted no chunk.
C9_NoErrorOnceStreaming ==
    \A r \in Requests :
        /\ events[r] # <<>> =>
              /\ Len(payload[r]) = 1
              /\ resp[r].kind = "response"
              /\ resp[r].status_code < 400
              /\ resp[r].json.t = "object"
              /\ status_code[r] = 200
              /\ pc[r] \in {"sse", "final", "done"}
        /\ status_code[r] \in {400, 500, 502} => events[r] = <<>>

C9_Witness ==
    \E r, q \in Requests :
        /\ events[r] # <<>> /\ pc[r] = "sse"
        /\ body[q].stream /\ pc[q] = "done" /\ status_code[q] = 502

CeilDiv(n, k) == (n + k - 1) \div k

\* C10: for a fragment size k >= 1 a text of length n is cut into ceil(n/k)
\* non-empty fragments, all of length k except the last, of length 1..k;
\* for k <= 0 the only fragment is the whole text, even when it is empty.
C10_FragmentSizes ==
    \A r \in Requests :
        pc[r] \in {"sse", "final", "done"} /\ Streamed(r) =>
            LET n == Len(assistant_text[r])
                k == STREAM_CHUNK_SIZE
                m == Len(parts[r])
            IN  IF k >= 1
                THEN /\ m = CeilDiv(n, k)
                     /\ \A i \in 1 .. m - 1 : Len(parts[r][i]) = k
                     /\ m >= 1 => Len(parts[r][m]) \in 1 .. k
                ELSE parts[r] = <<assistant_text[r]>>

C10_Witness ==
    \E r \in Requests :
        /\ pc[r] = "sse" /\ Streamed(r)
        /\ STREAM_CHUNK_SIZE = 3
        /\ Len(assistant_text[r]) = 4
        /\ Len(parts[r]) = 2

====
